---- MODULE Spec2Model ----
(***************************************************************************)
(* StorageManager of es-node (ethstorage/storage_manager.go): the local    *)
(* view of the most-recent-finalized L1 block, the cache of per-slot       *)
(* expected metas (blobMetas), and the commit / read paths that go through *)
(* the ShardManager, with the callers as concurrent processes that take    *)
(* the mutex s.mu where the code takes it.                                 *)
(***************************************************************************)
EXTENDS Integers, Sequences, FiniteSets, TLC

(***************************************************************************)
(* Bounds of the model.                                                    *)
(***************************************************************************)
NumProcs == 2        \* concurrent callers of the StorageManager
MaxCalls == 2        \* operations the concurrent callers start in one behaviour
MaxCallsSeq == 3     \* operations a single caller starts in one behaviour
MaxCallsBatch == 2   \* operations a single caller with longer batches starts
MaxL1 == 2           \* block numbers 0..MaxL1
MaxSlot == 3         \* kv indices 0..MaxSlot are passed by callers
KvEntries == 3       \* s.shardManager.kvEntries: slots per shard
KvEntriesDl == 4     \* slots per shard where the metas are downloaded
MaxCallsDl == 2      \* operations the downloading caller starts
MaxCallsRace == 2    \* operations started while the metas are downloaded
MaxShard == 1        \* shard ids 0..MaxShard
UintMod == 16        \* uint64 arithmetic wraps at UintMod, which stands for 2^64
MaxBatch == 1        \* longest kvIndices / blobs / commits argument
MaxBatchLong == 2    \* longest such argument of the caller with longer batches
MaxPrefix == 1       \* commit[0:24] takes the values 0..MaxPrefix, 0 the zero hash
MaxByte24 == 0       \* commit[24] takes the values 0..MaxByte24 times blobFillingMask
MaxThreads == 2      \* DownloadThreadNum is set to 0..MaxThreads

(***************************************************************************)
(* Program constants.                                                      *)
(***************************************************************************)
blobFillingMask == 128
HashSizeInContract == 24
\* MetaBatchSize and MetaDownloadThread, 8000 and 32 in the source, scaled down
MetaBatchSize == 2
MetaDownloadThread == 2

Procs == 1..NumProcs
Blocks == 0..MaxL1
Slots == 0..MaxSlot
Prefixes == 0..MaxPrefix

Min(a, b) == IF a < b THEN a ELSE b

(***************************************************************************)
(* common.Hash as the code reads it: pre is bytes [0,24), b24 is byte 24.  *)
(* Bytes [25,32) are zero in every hash the code builds or compares and    *)
(* are left out.                                                           *)
(***************************************************************************)
Hash(p, b) == [pre |-> p, b24 |-> b]
ZeroHash == Hash(0, 0)
Commits == {Hash(p, b * blobFillingMask) : p \in Prefixes, b \in 0..MaxByte24}

\* b | blobFillingMask on one byte
OrMask(b) == IF (b \div blobFillingMask) % 2 = 1 THEN b ELSE b + blobFillingMask
\* b & blobFillingMask on one byte
AndMask(b) == IF (b \div blobFillingMask) % 2 = 1 THEN blobFillingMask ELSE 0

prepareCommitNoFill(commit) == Hash(commit.pre, 0)
\* c starts as the zero hash, takes commit[0:24], and gets the filling bit
prepareCommit(commit) == Hash(commit.pre, OrMask(0))

(***************************************************************************)
(* A [32]byte meta of blobMetas: idx is bytes [0,5), hash is bytes [8,32), *)
(* which hold the first 24 bytes of the commit.                            *)
(***************************************************************************)
Meta(ib, h) == [idx |-> ib, hash |-> h]
\* new(big.Int).SetInt64(int64(i)).FillBytes(meta[0:5]): big-endian, 5 bytes
IdxBytes(i) == <<0, (i \div 16777216) % 256, (i \div 65536) % 256, (i \div 256) % 256, i % 256>>
\* new(big.Int).SetBytes(contractMeta[0:5]).Uint64()
IdxOf(ib) == (((ib[1] * 256 + ib[2]) * 256 + ib[3]) * 256 + ib[4]) * 256 + ib[5]
\* the zero value a Go map returns for an absent key
ZeroMeta == Meta(<<0, 0, 0, 0, 0>>, 0)

(***************************************************************************)
(* Il1Source: a static chain. At block b the contract has assigned the     *)
(* slots below LedgerLast(b), and a slot's hash changes from block to      *)
(* block.                                                                  *)
(***************************************************************************)
LedgerLast(b) == 3 * b + 2
LedgerHash(i, b) == IF i < LedgerLast(b) THEN ((i + b) % MaxPrefix) + 1 ELSE 0
LedgerMeta(i, b) == Meta(IdxBytes(i), LedgerHash(i, b))

VARIABLES
    localL1,            \* s.localL1
    lastKvIdx,          \* s.lastKvIdx
    DownloadThreadNum,  \* s.DownloadThreadNum
    blobMetas,          \* s.blobMetas: a map, absent keys read as the zero meta
    mu,                 \* s.mu: 0 when free, else the process holding it
    shards,             \* the shard ids of s.shardManager.ShardMap()
    kvEntries,          \* s.shardManager.kvEntries
    store,              \* the shard files: per held slot its meta and encoded data
    pc,                 \* per process: where it is in its operation
    frame,              \* per process: the arguments and locals of its operation
    ret,                \* the last return: operation, error, value
    calls               \* operations the callers may still start

vars == <<localL1, lastKvIdx, DownloadThreadNum, blobMetas, mu, shards, kvEntries,
          store, pc, frame, ret, calls>>

\* the ShardManager's configuration, fixed at construction
config == <<shards, kvEntries>>

view == <<localL1, lastKvIdx>>

(***************************************************************************)
(* ShardManager: the slots of the shards it holds, each with a 32-byte     *)
(* meta and the encoded data.                                              *)
(***************************************************************************)
Held(kv) == (kv \div kvEntries) \in shards

\* the payload whose data hash starts with commit[0:24]; 0 is the empty payload
BlobOf(commit) == commit.pre

NoData == [kv |-> 0, blob |-> 0, pre |-> 0, set |-> FALSE]
\* the encoded bytes depend on the slot, the payload and the data hash
EncodeKV(kv, blob, commit) == [kv |-> kv, blob |-> blob, pre |-> commit.pre, set |-> TRUE]
\* TryEncodeKV: (nil, false, nil) for a slot of a shard the manager does not hold
TryEncodeKV(kv) == IF Held(kv) THEN "ok" ELSE "notfound"

FreshSlot == [meta |-> ZeroHash, data |-> NoData]
\* TryWrite and TryWriteEncoded: the meta and the encoded data of the slot
Written(st, kv, data, c) == [st EXCEPT ![kv] = [meta |-> c, data |-> data]]

\* todo, last, rng, limit, par: DownloadAllMetas's shards still to do, its lastKvIdx,
\* the range being downloaded, the shard's limit, and whether workers were started;
\* dl: the downloadMetaInRange calls of the range, again telling that the call has
\* dropped a batch;
\* m0: blobMetas when the download of the range began
NoFrame == [op |-> "none", newL1 |-> 0, kvs |-> <<>>, commits |-> <<>>,
            metas |-> <<>>, has |-> <<>>, workers |-> <<>>, cnt |-> <<>>,
            view0 |-> <<>>, arg |-> <<>>, todo |-> <<>>, last |-> 0, rng |-> <<>>,
            limit |-> 0, par |-> FALSE, dl |-> <<>>, m0 |-> <<>>]
\* arg: the arguments of a single-slot or range call; writes: the positions of the
\* batch whose TryWriteEncoded ran; io: whether a shard file write failed
\* mismatch: the positions whose commit did not match the meta; rep: the call before
\* was the same call and returned nil; val of a DownloadFinished that returned nil:
\* its kvIndices and commits
NoRet == [op |-> "none", proc |-> 0, arg |-> <<>>, err |-> "none", val |-> <<>>,
          writes |-> {}, mismatch |-> {}, io |-> "ok", rep |-> FALSE]

InitWith(n, sids, entries) ==
    /\ localL1 = 0
    /\ lastKvIdx = 0
    /\ DownloadThreadNum = 0
    /\ blobMetas = <<>>
    /\ mu = 0
    /\ shards = sids
    /\ kvEntries = entries
    /\ store = [kv \in {k \in 0..((MaxShard + 1) * entries - 1) : (k \div entries) \in sids}
                   |-> FreshSlot]
    /\ pc = [p \in Procs |-> "idle"]
    /\ frame = [p \in Procs |-> NoFrame]
    /\ ret = NoRet
    /\ calls = n

Init == InitWith(MaxCalls, {0}, KvEntries)
InitSeq == InitWith(MaxCallsSeq, {0}, KvEntries)
InitBatch == InitWith(MaxCallsBatch, {0}, KvEntries)
InitRace == \E sids \in SUBSET (0..MaxShard) :
                sids # {} /\ InitWith(MaxCallsRace, sids, KvEntriesDl)
InitDl == \E sids \in SUBSET (0..MaxShard) :
              sids # {} /\ InitWith(MaxCallsDl, sids, KvEntriesDl)

getMeta(i) == IF i \in DOMAIN blobMetas THEN blobMetas[i] ELSE ZeroMeta
\* getKvMetas: one read of the map under the lock
getKvMetas(kvs) == [i \in 1..Len(kvs) |-> getMeta(kvs[i])]
HasMetas(kvs) == [i \in 1..Len(kvs) |-> kvs[i] \in DOMAIN blobMetas]

CanStart(p) == pc[p] = "idle" /\ calls > 0

Returned(p, r) ==
    [r EXCEPT !.proc = p,
              !.rep = r.arg # <<>> /\ ret.op = r.op /\ ret.arg = r.arg /\ ret.err = "nil"]

\* a call begins and goes on in later steps
Begin(p, at, f) ==
    /\ calls' = calls - 1
    /\ pc' = [pc EXCEPT ![p] = at]
    /\ frame' = [frame EXCEPT ![p] = f]
    /\ UNCHANGED ret

\* a call that began in an earlier step returns r
Return(p, r) ==
    /\ pc' = [pc EXCEPT ![p] = "idle"]
    /\ frame' = [frame EXCEPT ![p] = NoFrame]
    /\ ret' = Returned(p, r)
    /\ UNCHANGED calls

\* a call begins and returns r in one step
BeginReturn(p, r) ==
    /\ calls' = calls - 1
    /\ ret' = Returned(p, r)
    /\ UNCHANGED <<pc, frame>>

\* a nil error dereferenced (err.Error()) ends the program
Panic(p, op) ==
    /\ calls' = calls - 1
    /\ pc' = [q \in Procs |-> "crashed"]
    /\ ret' = [NoRet EXCEPT !.op = op, !.proc = p, !.err = "panic"]
    /\ UNCHANGED frame

(***************************************************************************)
(* The caller sets the exported field DownloadThreadNum after              *)
(* NewStorageManager and before it starts using the manager.               *)
(***************************************************************************)
Configure(n) ==
    /\ \A p \in Procs : pc[p] = "idle"
    /\ ret = NoRet
    /\ DownloadThreadNum = 0
    /\ n > 0
    /\ DownloadThreadNum' = n
    /\ UNCHANGED <<localL1, lastKvIdx, blobMetas, mu, config, store, pc, frame, ret, calls>>

(***************************************************************************)
(* Reset(newL1): the whole body runs under s.mu. ok is whether             *)
(* GetStorageLastBlobIdx answered.                                         *)
(***************************************************************************)
Reset(p, newL1, ok) ==
    /\ CanStart(p)
    /\ mu = 0
    /\ IF ok
       THEN /\ lastKvIdx' = LedgerLast(newL1)
            /\ localL1' = newL1
            /\ BeginReturn(p, [NoRet EXCEPT !.op = "Reset", !.arg = <<newL1>>, !.err = "nil"])
       ELSE /\ UNCHANGED <<lastKvIdx, localL1>>
            /\ BeginReturn(p, [NoRet EXCEPT !.op = "Reset", !.arg = <<newL1>>,
                                            !.err = "l1 source"])
    /\ UNCHANGED <<DownloadThreadNum, blobMetas, mu, config, store>>

(***************************************************************************)
(* DownloadFinished(newL1, kvIndices, blobs, commits). blobs[i] is         *)
(* BlobOf(commits[i]). The lock is taken at line 66 and held until the     *)
(* workers have been waited for; updateLocalMetas takes it again.          *)
(***************************************************************************)
IsOlderAllowEqual(newL1, cur) == newL1 < cur
\* newL1 <= s.localL1
IsOlder(newL1, cur) == newL1 <= cur

\* for i := taskIdx; i < len(kvIndices); i += taskNum
insertIdxInTask(taskIdx, taskNum, n) ==
    [k \in 1..((n - taskIdx + taskNum - 1) \div taskNum) |-> taskIdx + (k - 1) * taskNum]

\* the tasks started: taskIdx < taskNum, and break when taskIdx >= len(kvIndices)
TasksStarted(taskNum, n) == Min(taskNum, n)

RECURSIVE updateLocalMetas(_, _, _, _)
updateLocalMetas(m, kvs, commits, i) ==
    IF i > Len(kvs) THEN m
    ELSE updateLocalMetas((kvs[i] :> Meta(IdxBytes(kvs[i]), commits[i].pre)) @@ m,
                          kvs, commits, i + 1)

DF_Ret(newL1, e) == [NoRet EXCEPT !.op = "DownloadFinished", !.arg = <<newL1>>, !.err = e]

DF_BadLens(p, n1, n2, n3) ==
    /\ CanStart(p)
    /\ n1 # n2 \/ n2 # n3
    /\ BeginReturn(p, [NoRet EXCEPT !.op = "DownloadFinished", !.err = "invalid params lens"])
    /\ UNCHANGED <<localL1, lastKvIdx, DownloadThreadNum, blobMetas, mu, config, store>>

DF_Stale(p, newL1) ==
    /\ CanStart(p)
    /\ mu = 0
    /\ IsOlder(newL1, localL1)
    /\ BeginReturn(p, DF_Ret(newL1, "new L1 is older than local L1"))
    /\ UNCHANGED <<localL1, lastKvIdx, DownloadThreadNum, blobMetas, mu, config, store>>

DF_LedgerErr(p, newL1) ==
    /\ CanStart(p)
    /\ mu = 0
    /\ ~IsOlder(newL1, localL1)
    /\ BeginReturn(p, DF_Ret(newL1, "l1 source"))
    /\ UNCHANGED <<localL1, lastKvIdx, DownloadThreadNum, blobMetas, mu, config, store>>

DF_Begin(p, newL1, kvs, commits) ==
    /\ CanStart(p)
    /\ mu = 0
    /\ ~IsOlder(newL1, localL1)
    /\ lastKvIdx' = LedgerLast(newL1)
    /\ mu' = p
    /\ LET n == Len(kvs)
           taskNum == DownloadThreadNum
       IN Begin(p, "df_workers",
                [NoFrame EXCEPT !.op = "DownloadFinished", !.newL1 = newL1, !.kvs = kvs,
                     !.commits = commits, !.view0 = view,
                     !.cnt = [i \in 1..n |-> 0],
                     !.workers = [t \in 1..TasksStarted(taskNum, n) |->
                                    [todo |-> insertIdxInTask(t - 1, taskNum, n),
                                     res |-> "running"]]])
    /\ UNCHANGED <<localL1, DownloadThreadNum, blobMetas, config, store>>

\* one TryWrite of the worker goroutine t; ok is whether the shard file took it
DF_Worker(p, t, ok) ==
    /\ pc[p] = "df_workers"
    /\ t \in DOMAIN frame[p].workers
    /\ frame[p].workers[t].res = "running"
    /\ LET f == frame[p]
           w == f.workers[t]
           idx == Head(w.todo)
           kv == f.kvs[idx + 1]
           c == prepareCommit(f.commits[idx + 1])
           failed == Held(kv) /\ ~ok
           res == IF failed THEN "err"
                  ELSE IF Tail(w.todo) = <<>> THEN "nil" ELSE "running"
       IN /\ ~Held(kv) => ok
          /\ store' = IF Held(kv) /\ ok
                      THEN Written(store, kv, EncodeKV(kv, BlobOf(f.commits[idx + 1]), c), c)
                      ELSE store
          /\ frame' = [frame EXCEPT ![p].workers[t] = [todo |-> Tail(w.todo), res |-> res],
                                    ![p].cnt[idx + 1] = @ + 1]
    /\ UNCHANGED <<localL1, lastKvIdx, DownloadThreadNum, blobMetas, mu, config, pc, ret,
                   calls>>

DF_EndKeepsLock(p) ==
    /\ pc[p] = "df_workers"
    /\ \A t \in DOMAIN frame[p].workers : frame[p].workers[t].res # "running"
    /\ IF \E t \in DOMAIN frame[p].workers : frame[p].workers[t].res = "err"
       THEN /\ UNCHANGED <<localL1, mu>>
            /\ Return(p, DF_Ret(frame[p].newL1, "write failed"))
       ELSE /\ localL1' = frame[p].newL1
            /\ mu' = 0
            /\ pc' = [pc EXCEPT ![p] = "df_update"]
            /\ UNCHANGED <<frame, ret, calls>>
    /\ UNCHANGED <<lastKvIdx, DownloadThreadNum, blobMetas, config, store>>
\* wg.Wait() is over: read the results, then adopt the view or give up
DF_End(p) ==
    /\ pc[p] = "df_workers"
    /\ \A t \in DOMAIN frame[p].workers : frame[p].workers[t].res # "running"
    /\ mu' = 0
    /\ IF \E t \in DOMAIN frame[p].workers : frame[p].workers[t].res = "err"
       THEN /\ UNCHANGED localL1
            /\ Return(p, DF_Ret(frame[p].newL1, "write failed"))
       ELSE /\ localL1' = frame[p].newL1
            /\ pc' = [pc EXCEPT ![p] = "df_update"]
            /\ UNCHANGED <<frame, ret, calls>>
    /\ UNCHANGED <<lastKvIdx, DownloadThreadNum, blobMetas, config, store>>

DF_Update(p) ==
    /\ pc[p] = "df_update"
    /\ mu = 0
    /\ blobMetas' = updateLocalMetas(blobMetas, frame[p].kvs, frame[p].commits, 1)
    /\ Return(p, [DF_Ret(frame[p].newL1, "nil") EXCEPT
                     !.val = <<frame[p].kvs, frame[p].commits>>])
    /\ UNCHANGED <<localL1, lastKvIdx, DownloadThreadNum, mu, config, store>>

(***************************************************************************)
(* commitEncodedBlob(kvIndex, encodedBlob, commit, contractMeta) on the    *)
(* shard files st; fail is whether TryWriteEncoded fails if it runs.       *)
(* wrote is whether TryWriteEncoded ran.                                   *)
(***************************************************************************)
MetaMatchesAlways(contractMeta, commit) == TRUE
\* bytes.Equal(contractMeta[32-HashSizeInContract:32], commit[0:HashSizeInContract])
MetaMatches(contractMeta, commit) == contractMeta.hash = commit.pre

\* the local meta has the data hash and the filling bit
AlreadyFilled(localMeta, commit) ==
    localMeta.pre = commit.pre /\ AndMask(localMeta.b24) # 0

commitEncodedBlob(kv, commit, contractMeta, st, fail) ==
    IF ~MetaMatches(contractMeta, commit)
    THEN [err |-> "commit mismatch", st |-> st, wrote |-> FALSE]
    ELSE IF ~Held(kv)
    THEN [err |-> "metadata read failed", st |-> st, wrote |-> FALSE]
    ELSE IF IdxOf(contractMeta.idx) # kv
    THEN [err |-> "kvIdx mismatch", st |-> st, wrote |-> FALSE]
    ELSE IF AlreadyFilled(st[kv].meta, commit)
    THEN [err |-> "nil", st |-> st, wrote |-> FALSE]
    ELSE IF fail
    THEN [err |-> "encodedBlob write failed", st |-> st, wrote |-> TRUE]
    ELSE [err |-> "nil", wrote |-> TRUE,
          st |-> Written(st, kv, EncodeKV(kv, BlobOf(commit), commit), prepareCommit(commit))]

(***************************************************************************)
(* CommitBlob(kvIndex, blob, commit)                                       *)
(***************************************************************************)
CB_EncodeFail(p, kv, commit) ==
    /\ CanStart(p)
    /\ TryEncodeKV(kv) # "ok"
    /\ BeginReturn(p, [NoRet EXCEPT !.op = "CommitBlob", !.arg = <<kv, commit>>,
                                    !.err = "blob encode failed"])
    /\ UNCHANGED <<localL1, lastKvIdx, DownloadThreadNum, blobMetas, mu, config, store>>

\* the blob is encoded, then getKvMetas reads the map under the lock
CB_Begin(p, kv, commit) ==
    /\ CanStart(p)
    /\ TryEncodeKV(kv) = "ok"
    /\ mu = 0
    /\ Begin(p, "cb_commit",
             [NoFrame EXCEPT !.op = "CommitBlob", !.kvs = <<kv>>, !.commits = <<commit>>,
                             !.metas = getKvMetas(<<kv>>), !.has = HasMetas(<<kv>>)])
    /\ UNCHANGED <<localL1, lastKvIdx, DownloadThreadNum, blobMetas, mu, config, store>>

\* the lock is taken again and the slot is committed against the metas read before
CB_Commit(p, fail) ==
    /\ pc[p] = "cb_commit"
    /\ mu = 0
    /\ LET f == frame[p]
           r == commitEncodedBlob(f.kvs[1], f.commits[1], f.metas[1], store, fail)
       IN /\ fail => r.wrote
          /\ store' = r.st
          /\ Return(p, [NoRet EXCEPT !.op = "CommitBlob", !.arg = <<f.kvs[1], f.commits[1]>>,
                                     !.err = r.err,
                                     !.writes = IF r.wrote THEN {1} ELSE {},
                                     !.mismatch = IF r.err = "commit mismatch" THEN {1}
                                                  ELSE {},
                                     !.io = IF fail THEN "failed" ELSE "ok"])
    /\ UNCHANGED <<localL1, lastKvIdx, DownloadThreadNum, blobMetas, mu, config>>

(***************************************************************************)
(* CommitBlobs(kvIndices, blobs, commits)                                  *)
(***************************************************************************)
CBS_BadLens(p, n1, n2, n3) ==
    /\ CanStart(p)
    /\ n1 # n2 \/ n2 # n3
    /\ BeginReturn(p, [NoRet EXCEPT !.op = "CommitBlobs", !.err = "invalid params lens"])
    /\ UNCHANGED <<localL1, lastKvIdx, DownloadThreadNum, blobMetas, mu, config, store>>

\* TryEncodeKV gives success = false with a nil error: err.Error() at line 180
CBS_Panic(p, kvs, commits) ==
    /\ CanStart(p)
    /\ \E i \in 1..Len(kvs) : TryEncodeKV(kvs[i]) = "notfound"
    /\ Panic(p, "CommitBlobs")
    /\ UNCHANGED <<localL1, lastKvIdx, DownloadThreadNum, blobMetas, mu, config, store>>

CBS_Begin(p, kvs, commits) ==
    /\ CanStart(p)
    /\ \A i \in 1..Len(kvs) : TryEncodeKV(kvs[i]) = "ok"
    /\ mu = 0
    /\ Begin(p, "cbs_commit",
             [NoFrame EXCEPT !.op = "CommitBlobs", !.kvs = kvs, !.commits = commits,
                             !.metas = getKvMetas(kvs), !.has = HasMetas(kvs)])
    /\ UNCHANGED <<localL1, lastKvIdx, DownloadThreadNum, blobMetas, mu, config, store>>

\* for i, contractMeta := range metas: acc is the shard files, the inserted list,
\* the positions written and the positions whose write failed
RECURSIVE commitBlobsLoop(_, _, _, _)
commitBlobsLoop(f, i, acc, F) ==
    IF i > Len(f.metas) THEN acc
    ELSE LET r == commitEncodedBlob(f.kvs[i], f.commits[i], f.metas[i], acc.st, i \in F)
         IN commitBlobsLoop(f, i + 1,
                [st |-> r.st,
                 inserted |-> IF r.err = "nil" THEN Append(acc.inserted, f.kvs[i])
                              ELSE acc.inserted,
                 pos |-> IF r.err = "nil" THEN acc.pos \cup {i} ELSE acc.pos,
                 mismatch |-> IF r.err = "commit mismatch" THEN acc.mismatch \cup {i}
                              ELSE acc.mismatch,
                 writes |-> IF r.wrote THEN acc.writes \cup {i} ELSE acc.writes], F)

CBS_Commit(p, F) ==
    /\ pc[p] = "cbs_commit"
    /\ mu = 0
    /\ LET f == frame[p]
           r == commitBlobsLoop(f, 1, [st |-> store, inserted |-> <<>>, pos |-> {},
                                       mismatch |-> {}, writes |-> {}], F)
       IN /\ F \subseteq r.writes
          /\ store' = r.st
          /\ Return(p, [NoRet EXCEPT !.op = "CommitBlobs", !.err = "nil",
                                     !.val = <<r.inserted, r.pos>>, !.writes = r.writes,
                                     !.mismatch = r.mismatch,
                                     !.io = IF F = {} THEN "ok" ELSE "failed"])
    /\ UNCHANGED <<localL1, lastKvIdx, DownloadThreadNum, blobMetas, mu, config>>

(***************************************************************************)
(* CommitEmptyBlobs(start, limit)                                          *)
(***************************************************************************)
\* the encode loop meets a slot that is not held: err.Error() at line 221
CEB_Panic(p, start, limit) ==
    /\ CanStart(p)
    /\ \E i \in start..limit : TryEncodeKV(i) = "notfound"
    /\ Panic(p, "CommitEmptyBlobs")
    /\ UNCHANGED <<localL1, lastKvIdx, DownloadThreadNum, blobMetas, mu, config, store>>

CEB_Begin(p, start, limit) ==
    /\ CanStart(p)
    /\ \A i \in start..limit : TryEncodeKV(i) = "ok"
    /\ mu = 0
    /\ LET kvs == [i \in 1..(IF limit >= start THEN limit - start + 1 ELSE 0) |->
                     start + i - 1]
       IN Begin(p, "ceb_commit",
                [NoFrame EXCEPT !.op = "CommitEmptyBlobs", !.kvs = kvs,
                                !.commits = [i \in 1..Len(kvs) |-> ZeroHash],
                                !.metas = getKvMetas(kvs), !.has = HasMetas(kvs),
                                !.arg = <<start, limit>>])
    /\ UNCHANGED <<localL1, lastKvIdx, DownloadThreadNum, blobMetas, mu, config, store>>

NextMovesOnNilOnly(err) == err = "nil"
\* next++ is reached unless err != nil && err != errCommitMismatch
NextMovesOn(err) == err = "nil" \/ err = "commit mismatch"

\* for i, index := range kvIndices
RECURSIVE commitEmptyLoop(_, _, _, _)
commitEmptyLoop(f, i, acc, F) ==
    IF i > Len(f.kvs) THEN acc
    ELSE LET r == commitEncodedBlob(f.kvs[i], ZeroHash, f.metas[i], acc.st, i \in F)
             a == [st |-> r.st,
                   inserted |-> IF r.err = "nil" THEN acc.inserted + 1 ELSE acc.inserted,
                   next |-> IF NextMovesOn(r.err) THEN acc.next + 1 ELSE acc.next,
                   writes |-> IF r.wrote THEN acc.writes \cup {i} ELSE acc.writes,
                   mismatch |-> IF r.err = "commit mismatch" THEN acc.mismatch \cup {i}
                                ELSE acc.mismatch]
         IN IF NextMovesOn(r.err) THEN commitEmptyLoop(f, i + 1, a, F) ELSE a

CEB_Commit(p, F) ==
    /\ pc[p] = "ceb_commit"
    /\ mu = 0
    /\ LET f == frame[p]
           r == commitEmptyLoop(f, 1, [st |-> store, inserted |-> 0, next |-> f.arg[1],
                                       writes |-> {}, mismatch |-> {}], F)
       IN /\ F \subseteq r.writes
          /\ store' = r.st
          /\ Return(p, [NoRet EXCEPT !.op = "CommitEmptyBlobs", !.arg = f.arg, !.err = "nil",
                                     !.val = <<r.inserted, r.next>>, !.writes = r.writes,
                                     !.mismatch = r.mismatch,
                                     !.io = IF F = {} THEN "ok" ELSE "failed"])
    /\ UNCHANGED <<localL1, lastKvIdx, DownloadThreadNum, blobMetas, mu, config>>

(***************************************************************************)
(* TryReadEncoded(kvIdx, readLen) with syncCheck, under the lock           *)
(***************************************************************************)
h0 == ZeroHash
h1 == Hash(0, OrMask(0))

syncCheckOnlyUnsynced(kvIdx) ==
    IF ~Held(kvIdx) THEN "meta reading failed"
    ELSE IF store[kvIdx].meta = h0 THEN "syncing or just empty blob" ELSE "nil"
syncCheck(kvIdx) ==
    IF ~Held(kvIdx) THEN "meta reading failed"
    ELSE IF store[kvIdx].meta = h0 \/ store[kvIdx].meta = h1
         THEN "syncing or just empty blob"
         ELSE "nil"

TryReadEncoded(p, kvIdx) ==
    /\ CanStart(p)
    /\ mu = 0
    /\ LET e == syncCheck(kvIdx)
       IN BeginReturn(p, [NoRet EXCEPT !.op = "TryReadEncoded", !.arg = <<kvIdx>>,
                                       !.err = e,
                                       !.val = IF e = "nil" THEN <<store[kvIdx].data>>
                                               ELSE <<>>])
    /\ UNCHANGED <<localL1, lastKvIdx, DownloadThreadNum, blobMetas, mu, config, store>>

(***************************************************************************)
(* DownloadAllMetas, downloadMetaInParallel and downloadMetaInRange.       *)
(* A downloadMetaInRange call is a record: its cursor from, its bound to,  *)
(* where it is in its loop (st), the localL1 it read and the metas that    *)
(* GetKvMetas gave it for the batch.                                       *)
(***************************************************************************)
\* to - from in uint64
Sub64(a, b) == (a - b + UintMod) % UintMod

\* for from < to
RangeCall(from, to) ==
    [from |-> from, to |-> to, st |-> IF from < to THEN "fetch" ELSE "done",
     l1 |-> 0, metas |-> <<>>, again |-> FALSE]

\* to - from < uint64(taskNum) * MetaBatchSize
IsSmall(from, to) == Sub64(to, from) < MetaDownloadThread * MetaBatchSize

\* rangeStart := taskIdx * rangeSize
rangeStart(taskIdx, rangeSize, from) == taskIdx * rangeSize

\* rangeEnd := (taskIdx + 1) * rangeSize, and to for the last task
rangeEnd(taskIdx, rangeSize, from, to) ==
    IF taskIdx = MetaDownloadThread - 1 THEN to ELSE (taskIdx + 1) * rangeSize

\* the downloadMetaInRange calls downloadMetaInParallel(from, to) makes: one in the
\* caller's goroutine for a small range, else one per task
downloadMetaInParallel(from, to) ==
    IF IsSmall(from, to)
    THEN <<RangeCall(from, to)>>
    ELSE LET rangeSize == Sub64(to, from) \div MetaDownloadThread
         IN [t \in 1..MetaDownloadThread |->
                RangeCall(rangeStart(t - 1, rangeSize, from),
                          rangeEnd(t - 1, rangeSize, from, to))]

batchLimit(w) == Min(w.from + MetaBatchSize, w.to)

\* the orders in which range s.Shards() may give the shards
ShardOrders ==
    {o \in [1..Cardinality(shards) -> shards] :
        \A i, j \in 1..Cardinality(shards) : o[i] = o[j] => i = j}

DAM_Ret(e) == [NoRet EXCEPT !.op = "DownloadAllMetas", !.err = e]

\* HeaderByNumber or GetStorageLastBlobIdx fails
DAM_SourceErr(p) ==
    /\ CanStart(p)
    /\ BeginReturn(p, DAM_Ret("l1 source"))
    /\ UNCHANGED <<localL1, lastKvIdx, DownloadThreadNum, blobMetas, mu, config, store>>

\* l1 is the finalized header's number
DAM_Begin(p, l1, order) ==
    /\ CanStart(p)
    /\ order \in ShardOrders
    /\ Begin(p, "dam_shard", [NoFrame EXCEPT !.op = "DownloadAllMetas",
                                              !.last = LedgerLast(l1),
                                              !.todo = order])
    /\ UNCHANGED <<localL1, lastKvIdx, DownloadThreadNum, blobMetas, mu, config, store>>

\* the loop's next shard: first, limit, end, and the call of downloadMetaInParallel
DAM_Shard(p) ==
    /\ pc[p] = "dam_shard"
    /\ frame[p].todo # <<>>
    /\ LET sid == Head(frame[p].todo)
           first == kvEntries * sid
           limit == kvEntries * (sid + 1)
           end == Min(limit, frame[p].last)
       IN frame' = [frame EXCEPT ![p].rng = <<first, end>>,
                                 ![p].limit = limit,
                                 ![p].par = ~IsSmall(first, end),
                                 ![p].dl = downloadMetaInParallel(first, end),
                                 ![p].m0 = blobMetas]
    /\ pc' = [pc EXCEPT ![p] = "dam_range"]
    /\ UNCHANGED <<localL1, lastKvIdx, DownloadThreadNum, blobMetas, mu, config, store,
                   ret, calls>>

\* downloadMetaInRange reads localL1 under the lock and asks the ledger for the
\* batch; ok is whether GetKvMetas answered, the first time or the second
DL_Fetch(p, w, ok) ==
    /\ pc[p] = "dam_range"
    /\ w \in DOMAIN frame[p].dl
    /\ frame[p].dl[w].st = "fetch"
    /\ mu = 0
    /\ LET c == frame[p].dl[w]
       IN frame' = [frame EXCEPT ![p].dl[w] =
              IF ok
              THEN [c EXCEPT !.st = "install", !.l1 = localL1,
                             !.metas = [k \in 1..(batchLimit(c) - c.from)
                                           |-> LedgerMeta(c.from + k - 1, localL1)]]
              ELSE [c EXCEPT !.st = "failed"]]
    /\ UNCHANGED <<localL1, lastKvIdx, DownloadThreadNum, blobMetas, mu, config, store,
                   pc, ret, calls>>

ViewChangedNever(l1, cur) == FALSE
\* localL1 != s.localL1
ViewChanged(l1, cur) == l1 # cur

\* under the lock again: the batch is dropped and fetched again when localL1 has
\* changed, else it is stored and the cursor moves to batchLimit
DL_Install(p, w) ==
    /\ pc[p] = "dam_range"
    /\ w \in DOMAIN frame[p].dl
    /\ frame[p].dl[w].st = "install"
    /\ mu = 0
    /\ LET c == frame[p].dl[w]
       IN IF ViewChanged(c.l1, localL1)
          THEN /\ frame' = [frame EXCEPT ![p].dl[w] = [c EXCEPT !.st = "fetch",
                                                                !.metas = <<>>,
                                                                !.again = TRUE]]
               /\ UNCHANGED blobMetas
          ELSE /\ blobMetas' = [i \in DOMAIN blobMetas \cup (c.from..(batchLimit(c) - 1)) |->
                                   IF i \in c.from..(batchLimit(c) - 1)
                                   THEN c.metas[i - c.from + 1]
                                   ELSE blobMetas[i]]
               /\ frame' = [frame EXCEPT ![p].dl[w] =
                               [RangeCall(batchLimit(c), c.to) EXCEPT !.l1 = c.l1,
                                                                      !.again = c.again]]
    /\ UNCHANGED <<localL1, lastKvIdx, DownloadThreadNum, mu, config, store, pc, ret, calls>>

RangeCallsOver(p) == \A w \in DOMAIN frame[p].dl : frame[p].dl[w].st \in {"done", "failed"}

\* downloadMetaInParallel has returned an error
DAM_RangeErr(p) ==
    /\ pc[p] = "dam_range"
    /\ RangeCallsOver(p)
    /\ \E w \in DOMAIN frame[p].dl : frame[p].dl[w].st = "failed"
    /\ Return(p, DAM_Ret("l1 source"))
    /\ UNCHANGED <<localL1, lastKvIdx, DownloadThreadNum, blobMetas, mu, config, store>>

\* the records of the empty blobs, written without the lock
emptyMetas(m, end, limit) ==
    [i \in DOMAIN m \cup (end..(limit - 1)) |->
        IF i \in end..(limit - 1) THEN Meta(IdxBytes(i), 0) ELSE m[i]]

\* downloadMetaInParallel has returned nil: the empty blobs from end to limit
DAM_RangeEnd(p) ==
    /\ pc[p] = "dam_range"
    /\ RangeCallsOver(p)
    /\ \A w \in DOMAIN frame[p].dl : frame[p].dl[w].st = "done"
    /\ blobMetas' = emptyMetas(blobMetas, frame[p].rng[2], frame[p].limit)
    /\ frame' = [frame EXCEPT ![p].todo = Tail(@), ![p].dl = <<>>]
    /\ pc' = [pc EXCEPT ![p] = "dam_shard"]
    /\ UNCHANGED <<localL1, lastKvIdx, DownloadThreadNum, mu, config, store, ret, calls>>

DAM_Return(p) ==
    /\ pc[p] = "dam_shard"
    /\ frame[p].todo = <<>>
    /\ Return(p, DAM_Ret("nil"))
    /\ UNCHANGED <<localL1, lastKvIdx, DownloadThreadNum, blobMetas, mu, config, store>>

(***************************************************************************)
(* The steps of one caller, with batches of at most maxLen entries.        *)
(***************************************************************************)
Steps(p, maxLen) ==
    \/ \E b \in Blocks, ok \in BOOLEAN : Reset(p, b, ok)
    \/ \E n1, n2, n3 \in 0..1 : DF_BadLens(p, n1, n2, n3)
    \/ \E b \in Blocks : DF_Stale(p, b)
    \/ \E b \in Blocks : DF_LedgerErr(p, b)
    \/ \E b \in Blocks, k \in 0..maxLen :
          \E kvs \in [1..k -> Slots], commits \in [1..k -> Commits] :
              DF_Begin(p, b, kvs, commits)
    \/ \E t \in 1..MaxThreads, ok \in BOOLEAN : DF_Worker(p, t, ok)
    \/ DF_End(p)
    \/ DF_Update(p)
    \/ \E kv \in Slots, c \in Commits : CB_EncodeFail(p, kv, c)
    \/ \E kv \in Slots, c \in Commits : CB_Begin(p, kv, c)
    \/ \E fail \in BOOLEAN : CB_Commit(p, fail)
    \/ \E n1, n2, n3 \in 0..1 : CBS_BadLens(p, n1, n2, n3)
    \/ \E k \in 0..maxLen :
          \E kvs \in [1..k -> Slots], commits \in [1..k -> Commits] :
              \/ CBS_Panic(p, kvs, commits)
              \/ CBS_Begin(p, kvs, commits)
    \/ \E F \in SUBSET (1..maxLen) : CBS_Commit(p, F)
    \/ \E start, limit \in Slots : CEB_Panic(p, start, limit)
    \/ \E start, limit \in Slots : CEB_Begin(p, start, limit)
    \/ \E F \in SUBSET (1..(MaxSlot + 1)) : CEB_Commit(p, F)
    \/ \E kv \in Slots : TryReadEncoded(p, kv)

Next ==
    \/ \E n \in 1..MaxThreads : Configure(n)
    \/ \E p \in Procs : Steps(p, MaxBatch)

NextSeq ==
    \/ \E n \in 1..MaxThreads : Configure(n)
    \/ Steps(1, MaxBatch)

NextBatch ==
    \/ \E n \in 1..MaxThreads : Configure(n)
    \/ Steps(1, MaxBatchLong)

\* the steps of a caller that sets the view and downloads the metas
NextDl ==
    \/ \E b \in Blocks, ok \in BOOLEAN : Reset(1, b, ok)
    \/ DAM_SourceErr(1)
    \/ \E b \in Blocks, order \in [1..Cardinality(shards) -> shards] : DAM_Begin(1, b, order)
    \/ DAM_Shard(1)
    \/ \E w \in 1..MetaDownloadThread, ok \in BOOLEAN : DL_Fetch(1, w, ok)
    \/ \E w \in 1..MetaDownloadThread : DL_Install(1, w)
    \/ DAM_RangeErr(1)
    \/ DAM_RangeEnd(1)
    \/ DAM_Return(1)

\* caller 1 downloads the metas while caller 2 changes the view
NextRace ==
    \/ \E n \in 1..MaxThreads : Configure(n)
    \/ \E b \in Blocks, order \in [1..Cardinality(shards) -> shards] : DAM_Begin(1, b, order)
    \/ DAM_Shard(1)
    \/ \E w \in 1..MetaDownloadThread, ok \in BOOLEAN : DL_Fetch(1, w, ok)
    \/ \E w \in 1..MetaDownloadThread : DL_Install(1, w)
    \/ DAM_RangeErr(1)
    \/ DAM_RangeEnd(1)
    \/ DAM_Return(1)
    \/ \E b \in Blocks, ok \in BOOLEAN : Reset(2, b, ok)
    \/ \E b \in Blocks, k \in 0..MaxBatch :
          \E kvs \in [1..k -> Slots], commits \in [1..k -> Commits] :
              DF_Begin(2, b, kvs, commits)
    \/ \E t \in 1..MaxThreads, ok \in BOOLEAN : DF_Worker(2, t, ok)
    \/ DF_End(2)
    \/ DF_Update(2)

\* concurrent callers
Spec == Init /\ [][Next]_vars
\* one caller, one call after the other
SpecSeq == InitSeq /\ [][NextSeq]_vars
\* one caller with longer batches
SpecBatch == InitBatch /\ [][NextBatch]_vars
\* a download that races changes of the view
SpecRace == InitRace /\ [][NextRace]_vars
\* one caller, the metas of the held shards downloaded
SpecDl == InitDl /\ [][NextDl]_vars

\* every goroutine that can take a step is scheduled, and a caller inside a call
\* goes on with it
Fairness ==
    /\ WF_vars(\E t \in 1..MaxThreads, ok \in BOOLEAN : DF_Worker(2, t, ok))
    /\ WF_vars(DF_End(2))
    /\ WF_vars(DF_Update(2))
    /\ WF_vars(DAM_Shard(1))
    /\ WF_vars(\E w \in 1..MetaDownloadThread, ok \in BOOLEAN : DL_Fetch(1, w, ok))
    /\ WF_vars(\E w \in 1..MetaDownloadThread : DL_Install(1, w))
    /\ WF_vars(DAM_RangeErr(1))
    /\ WF_vars(DAM_RangeEnd(1))
    /\ WF_vars(DAM_Return(1))
\* the download and the changes of the view with every started call going on
SpecLive == InitRace /\ [][NextRace]_vars /\ Fairness

(***************************************************************************)
(* Properties.                                                             *)
(***************************************************************************)
\* a call that takes one step: it begins and returns, and ret' is its return
AtomicCall == calls' # calls /\ pc' = pc
\* the step in which the call of p that was at `at` returns
Returns(p, at) == pc[p] = at /\ pc'[p] = "idle"
\* the step in which a commit of p returns
CommitReturns(p) ==
    Returns(p, "cb_commit") \/ Returns(p, "cbs_commit") \/ Returns(p, "ceb_commit")

\* C1: when a worker's TryWrite fails in DownloadFinished, localL1 and lastKvIdx
\* are, when the call returns, what they were before the call.
C1_AbortKeepsView ==
    [][\A p \in Procs :
          (Returns(p, "df_workers") /\ ret'.err = "write failed")
              => <<localL1', lastKvIdx'>> = frame[p].view0]_vars

C3_WriteMatchesCache ==
    [][\A p \in Procs :
          CommitReturns(p)
              => \A i \in ret'.writes :
                    frame[p].commits[i].pre = getMeta(frame[p].kvs[i]).hash]_vars

\* C4: a DownloadFinished with newL1 <= localL1 returns the error of the stale
\* reference and changes nothing: no call with such a reference gets past the
\* check to stage the ledger's index or start a worker.
C4_StaleRejected ==
    [][/\ \A p \in Procs :
             (pc[p] = "idle" /\ pc'[p] = "df_workers") => frame'[p].newL1 > localL1
       /\ (AtomicCall /\ ret'.op = "DownloadFinished" /\ ret'.arg # <<>>
             /\ ret'.arg[1] <= localL1)
             => /\ ret'.err = "new L1 is older than local L1"
                /\ UNCHANGED <<localL1, lastKvIdx, blobMetas, store, mu, frame>>]_vars

\* a call with the reference the view already has was refused
C4_Witness ==
    /\ ret.op = "DownloadFinished"
    /\ ret.err = "new L1 is older than local L1"
    /\ ret.arg[1] = localL1
    /\ localL1 > 0

\* C5: localL1 never decreases, whatever Reset and DownloadFinished are called with.
C5_ViewNeverGoesBack == [][localL1' >= localL1]_vars

\* C6: a CommitBlob that follows a successful CommitBlob with the same arguments
\* succeeds, runs no TryWriteEncoded and leaves the shard files as they were; the
\* same for a CommitEmptyBlobs that follows one that filled its whole range.
C6_IdempotentCommit ==
    [][\A p \in Procs :
          LET f == frame[p]
          IN /\ (Returns(p, "cb_commit") /\ ret.op = "CommitBlob" /\ ret.err = "nil"
                    /\ ret.arg = <<f.kvs[1], f.commits[1]>>)
                    => /\ ret'.err = "nil"
                       /\ ret'.writes = {}
                       /\ store' = store
             /\ (Returns(p, "ceb_commit") /\ ret.op = "CommitEmptyBlobs"
                    /\ ret.arg = f.arg /\ ret.val[1] = Len(f.kvs))
                    => /\ ret'.val = ret.val
                       /\ ret'.writes = {}
                       /\ store' = store]_vars

\* the second of two CommitBlob calls with the same real commitment has returned
C6_Witness ==
    /\ ret.op = "CommitBlob"
    /\ ret.rep
    /\ ret.err = "nil"
    /\ ret.arg[2].pre # 0
    /\ store[ret.arg[1]].meta = prepareCommit(ret.arg[2])

\* the three states of a slot, from its physical meta
Unsynced(m) == m.pre = 0 /\ m.b24 = 0
EmptyFilled(m) == m.pre = 0 /\ AndMask(m.b24) # 0
Filled(m) == m.pre # 0 /\ AndMask(m.b24) # 0

\* C7: TryReadEncoded(k) fails with "syncing or just empty blob" exactly when the
\* slot is Unsynced or EmptyFilled, and otherwise the slot is Filled and the read
\* returns the slot's encoded data; CommitEmptyBlobs leaves an Unsynced or
\* EmptyFilled slot Unsynced or EmptyFilled; and a read that follows a successful
\* CommitBlob of real content on the slot returns the data of that commit.
C7_ReadClassification ==
    [][/\ (AtomicCall /\ ret'.op = "TryReadEncoded")
             => LET k == ret'.arg[1]
                IN IF Held(k)
                   THEN /\ (ret'.err = "syncing or just empty blob")
                               <=> (Unsynced(store[k].meta) \/ EmptyFilled(store[k].meta))
                        /\ (ret'.err = "nil") <=> Filled(store[k].meta)
                        /\ ret'.err = "nil" => ret'.val = <<store[k].data>>
                        /\ (ret.op = "CommitBlob" /\ ret.err = "nil" /\ ret.arg[1] = k
                               /\ ret.arg[2].pre # 0 /\ ret.proc = ret'.proc)
                             => /\ ret'.err = "nil"
                                /\ ret'.val = <<EncodeKV(k, BlobOf(ret.arg[2]), ret.arg[2])>>
                   ELSE ret'.err = "meta reading failed"
       /\ \A p \in Procs :
             Returns(p, "ceb_commit")
                => \A k \in DOMAIN store :
                      (Unsynced(store[k].meta) \/ EmptyFilled(store[k].meta))
                         => (Unsynced(store'[k].meta) \/ EmptyFilled(store'[k].meta))]_vars

\* a read of a slot that CommitEmptyBlobs filled was refused
C7_Witness ==
    /\ ret.op = "TryReadEncoded"
    /\ ret.err = "syncing or just empty blob"
    /\ store[ret.arg[1]].meta = h1

C9_AllWrittenOnce ==
    \A p \in Procs :
        pc[p] = "df_update" => \A i \in DOMAIN frame[p].cnt : frame[p].cnt[i] = 1

\* what downloadMetaInRange(from, to) makes of the records m with the view at block b
Sequential(m, from, to, b) ==
    [i \in DOMAIN m \cup (from..(to - 1)) |->
        IF i \in from..(to - 1) THEN LedgerMeta(i, b) ELSE m[i]]

\* C10: when downloadMetaInParallel(from, to) with from <= to has returned nil,
\* blobMetas has the ledger's record at every index of the range and is what one
\* downloadMetaInRange(from, to) would have made of it, whether the range was
\* given to one call or split among the tasks.
C10_ParallelAsSequential ==
    \A p \in Procs :
        (/\ pc[p] = "dam_range"
         /\ \A w \in DOMAIN frame[p].dl : frame[p].dl[w].st = "done"
         /\ frame[p].rng[1] <= frame[p].rng[2])
            => blobMetas = Sequential(frame[p].m0, frame[p].rng[1], frame[p].rng[2], localL1)

\* C11: lastKvIdx and blobMetas are written only under s.mu: a step that writes
\* either is the step of a caller that takes the lock for it, so no such step is
\* taken while another caller holds the lock.
C11_WritesUnderLock ==
    [][(blobMetas' # blobMetas \/ lastKvIdx' # lastKvIdx) => mu = 0]_vars

\* C12: an operation other than Reset that is called before any Reset is rejected
\* at once: the first call of a caller, when it is not Reset, returns an error in
\* the step it begins and leaves the view, blobMetas and the shard files alone.
C12_RejectedBeforeReset ==
    [][(calls = MaxCallsSeq /\ calls' # calls /\ ~(AtomicCall /\ ret'.op = "Reset"))
          => /\ AtomicCall
             /\ ret'.err # "nil"
             /\ UNCHANGED <<localL1, lastKvIdx, blobMetas, store>>]_vars

\* the step in which the downloadMetaInRange call w of p is at line 435 with a batch
InstallStep(p, w) ==
    /\ pc[p] = "dam_range"
    /\ w \in DOMAIN frame[p].dl
    /\ frame[p].dl[w].st = "install"
    /\ frame'[p].dl[w] # frame[p].dl[w]

\* C13: a batch is written into blobMetas only when the block it was fetched at is
\* localL1 at the write, and then every index from the cursor to batchLimit gets
\* the ledger's record at that block and the cursor moves to batchLimit; a batch
\* fetched at another block is dropped, blobMetas and the cursor stay, and the
\* call fetches the same batch again.
C13_NoStaleBatch ==
    [][\A p \in Procs : \A w \in 1..MetaDownloadThread :
          InstallStep(p, w)
             => LET c == frame[p].dl[w]
                    d == frame'[p].dl[w]
                IN IF c.l1 = localL1
                   THEN /\ \A i \in c.from..(batchLimit(c) - 1) :
                              /\ i \in DOMAIN blobMetas'
                              /\ blobMetas'[i] = LedgerMeta(i, localL1)
                        /\ \A i \in DOMAIN blobMetas' \ (c.from..(batchLimit(c) - 1)) :
                              i \in DOMAIN blobMetas /\ blobMetas'[i] = blobMetas[i]
                        /\ d.from = batchLimit(c)
                        /\ d.from > c.from /\ d.from <= c.from + MetaBatchSize
                   ELSE /\ blobMetas' = blobMetas
                        /\ d.from = c.from /\ d.to = c.to
                        /\ d.st = "fetch"]_vars

\* a call that dropped a batch for a change of the view has gone on to its end
C13_Witness ==
    \E w \in 1..MetaDownloadThread :
        /\ pc[1] = "dam_range"
        /\ w \in DOMAIN frame[1].dl
        /\ frame[1].dl[w].again
        /\ frame[1].dl[w].st = "done"
        /\ frame[1].dl[w].l1 = localL1

\* the indices of the shards the manager holds
HeldIndices == {i \in 0..((MaxShard + 1) * kvEntries - 1) : Held(i)}

\* C14: when DownloadAllMetas returns nil, every index of a held shard below the
\* lastKvIdx it read has the ledger's record, every other index of the shard has
\* the record of an empty blob with the index in its first bytes, and blobMetas
\* has no record outside the held shards.
C14_ShardsCovered ==
    [][\A p \in Procs :
          (Returns(p, "dam_shard") /\ ret'.err = "nil")
             => /\ \A i \in HeldIndices :
                     /\ i \in DOMAIN blobMetas'
                     /\ blobMetas'[i] = IF i < frame[p].last
                                        THEN LedgerMeta(i, localL1)
                                        ELSE Meta(IdxBytes(i), 0)
                /\ DOMAIN blobMetas' \subseteq HeldIndices]_vars

\* C15: the ranges downloadMetaInParallel(from, to), from <= to, gives its tasks
\* follow one another from from to to: the first starts at from, each ends where
\* the next starts, none ends before it starts, and the last ends at to.
C15_TasksPartitionRange ==
    [][\A p \in Procs :
          (pc[p] = "dam_shard" /\ pc'[p] = "dam_range" /\ frame'[p].par
              /\ frame'[p].rng[1] <= frame'[p].rng[2])
             => LET d == frame'[p].dl
                IN /\ d[1].from = frame'[p].rng[1]
                   /\ d[Len(d)].to = frame'[p].rng[2]
                   /\ \A t \in 1..Len(d) : d[t].from <= d[t].to
                   /\ \A t \in 1..(Len(d) - 1) : d[t].to = d[t + 1].from]_vars

\* the slots of kvs at the positions pos, in input order
RECURSIVE SlotsAt(_, _, _)
SlotsAt(kvs, pos, i) ==
    IF i > Len(kvs) THEN <<>>
    ELSE IF i \in pos THEN <<kvs[i]>> \o SlotsAt(kvs, pos, i + 1)
    ELSE SlotsAt(kvs, pos, i + 1)

\* C16: a CommitBlobs call whose three inputs have the same length returns a nil
\* error and exactly the slots whose commit succeeded, in input order, whatever the
\* encoding or the per-slot rule did with single entries.
C16_BatchNeverFails ==
    [][(ret' # ret /\ ret'.op = "CommitBlobs" /\ ret'.err # "invalid params lens")
          => /\ ret'.err = "nil"
             /\ ret'.val[1] = SlotsAt(frame[ret'.proc].kvs, ret'.val[2], 1)]_vars

\* C17: every CommitEmptyBlobs(start, limit) call returns a nil error, next - start
\* is the number of slots that were filled or had a mismatching record, inserted
\* counts the filled ones, next stays within limit + 1, and no slot after next is
\* written.
C17_EmptyFillCursor ==
    [][(ret' # ret /\ ret'.op = "CommitEmptyBlobs")
          => /\ ret'.err = "nil"
             /\ LET start == ret'.arg[1]
                    limit == ret'.arg[2]
                    inserted == ret'.val[1]
                    next == ret'.val[2]
                IN /\ next - start = inserted + Cardinality(ret'.mismatch)
                   /\ inserted <= next - start
                   /\ limit >= start => next - start <= limit - start + 1
                   /\ \A i \in ret'.writes : start + i - 1 <= next]_vars

\* the results sent before any is read fit into the channel
ResultsFit ==
    \A p \in Procs :
        /\ pc[p] = "df_workers" => Len(frame[p].workers) <= DownloadThreadNum
        /\ (pc[p] = "dam_range" /\ frame[p].par) => Len(frame[p].dl) <= MetaDownloadThread
\* the lock is held by a DownloadFinished call that is waiting for its workers only
HeldInsideFanOut == \A p \in Procs : mu = p => pc[p] = "df_workers"
\* the orchestrator goes on when every worker has reported, a worker steps only
\* while its orchestrator waits, and a DownloadFinished call that returns leaves
\* the lock free
FanOutSteps ==
    \A p \in Procs :
        /\ (pc[p] = "df_workers" /\ pc'[p] # "df_workers")
              => \A t \in DOMAIN frame[p].workers : frame[p].workers[t].res # "running"
        /\ (pc[p] = "dam_range" /\ pc'[p] # "dam_range") => RangeCallsOver(p)
        /\ (pc[p] = "df_workers" /\ frame'[p].workers # frame[p].workers)
              => pc'[p] \in {"df_workers", "idle"}
        /\ (ret' # ret /\ ret'.op = "DownloadFinished" /\ ret'.proc = p) => mu' # p

C19_CacheFollowsView ==
    [][\A p \in Procs :
          (/\ Returns(p, "df_update")
           /\ ret.op = "DownloadFinished" /\ ret.err = "nil" /\ ret.proc # p
           /\ ret.arg[1] > frame[p].newL1
           /\ \A q \in Procs : pc'[q] = "idle")
             => \A i \in 1..Len(frame[p].kvs), j \in 1..Len(ret.val[1]) :
                    frame[p].kvs[i] = ret.val[1][j]
                       => blobMetas'[ret.val[1][j]].hash = ret.val[2][j].pre]_vars

\* C20: a commit call runs TryWriteEncoded only on slots whose record was in
\* blobMetas when getKvMetas read it.
C20_NoWriteWithoutRecord ==
    [][\A p \in Procs :
          CommitReturns(p) => \A i \in ret'.writes : frame[p].has[i]]_vars


====
